---- MODULE Spec2Model ----
(***************************************************************************)
(* Texture caches of egui_extras.                                          *)
(*                                                                         *)
(* The module models the caches, each on top of the shared epaint          *)
(* TextureManager (the "HandlePool" of the specification), and the http    *)
(* loader:                                                                 *)
(*                                                                         *)
(*   Spec     DynTextMan of text_man/dyn_text_man.rs: the cache keyed by   *)
(*            (url, size) with byte accounting and the TargetCacheSize     *)
(*            unload strategy;                                             *)
(*   SpecLRU  the same DynTextMan built with a target that holds several   *)
(*            textures, followed for one more call;                        *)
(*   SpecDTM  DynamicTextureManager of dynamic_texture_manager.rs: the     *)
(*            cache with a bytes cache and a texture id cache, which       *)
(*            hands out the placeholder while the loader says Again;       *)
(*   SpecHttp, FairSpecHttp                                                *)
(*            HttpBytesLoader of http_bytes_loader.rs with the fetches it  *)
(*            starts; the second with a caller that keeps calling and      *)
(*            fetches that complete;                                       *)
(*   SpecTextMan                                                           *)
(*            DynTextMan of text_man.rs: the cache with one parser and no  *)
(*            byte accounting.                                             *)
(*                                                                         *)
(* One action is one public call run to completion: to its return, to a    *)
(* panic, or to the point where it stops making progress.  Under each      *)
(* specification the variables of the other parts stay as constructed.     *)
(***************************************************************************)
EXTENDS Integers, Sequences, FiniteSets, TLC

----------------------------------------------------------------------------
(* Bounds of the model.                                                     *)

\* Number of textures the cache may allocate after the placeholder.
MaxAllocs == 3
\* Number of SystemTime::now() readings taken.
MaxClock == 3
\* Width of usize in the model.  The program's usize has 64 (or 32) bits; every
\* footprint sum of the model stays far below 2^UsizeBits, so a wrapped
\* counter is, as in the program, larger than every target and every sum.
UsizeBits == 8

UsizeModulus == 2 ^ UsizeBits

----------------------------------------------------------------------------
(* Inputs.                                                                  *)

\* Urls are sequences of characters, so that the file extension is computed:
\* "a.p", "b.p" and "c", which has no extension.
Urls == { <<"a", ".", "p">>, <<"b", ".", "p">>, <<"c">> }

\* TextSize = (usize, usize)
TextSizes == { <<1, 1>>, <<2, 1>> }

\* The (url, size) pairs the consumer asks for: one url at two sizes, and two
\* more urls.
Keys ==
    { k \in Urls \X TextSizes : k[1] = <<"a", ".", "p">> \/ k[2] = <<1, 1>> }

\* What a loader hands back as Bytes: content a parser rejects, or an image
\* with an intrinsic number of pixels.
LoadedBytes == { [valid |-> FALSE, pixels |-> 0], [valid |-> TRUE, pixels |-> 3] }

\* LoaderResult
LoaderResults ==
    { [kind |-> "Again"], [kind |-> "Err"] }
        \cup { [kind |-> "Bytes", bytes |-> b] : b \in LoadedBytes }

\* The two kinds of parser of text_man/bytes_parser.rs: one that rasterizes at
\* the requested size (svg), one that ignores it (png, jpg).
Parsers == { "svg", "png" }

\* File extensions a parser is registered for.
Exts == { <<"p">> }

\* UnloadStrategy
Targets == { 8 }
UnloadStrategies ==
    { [kind |-> "None"] } \cup { [kind |-> "TargetCacheSize", target |-> n] : n \in Targets }

\* A target that holds three 1x1 textures, or a 1x1 and a 2x1 one.
LruTarget == 12

----------------------------------------------------------------------------
(* epaint::TextureManager, the HandlePool.                                 *)

\* ImageData::bytes_per_pixel of a ColorImage.
BytesPerPixel == 4

NotFound == -1

\* TextureManager::alloc: a fresh id, never handed out before, with the
\* footprint of the image.
TextureManager_alloc(tm, pixels) ==
    [ id |-> tm.next_id,
      tm |-> [ next_id |-> tm.next_id + 1,
               metas   |-> [ h \in DOMAIN tm.metas \cup {tm.next_id} |->
                               IF h = tm.next_id THEN pixels * BytesPerPixel
                                                 ELSE tm.metas[h] ] ] ]

\* TextureManager::free: the cache holds the only reference of a texture it
\* allocated, so freeing removes it.
TextureManager_free(tm, id) ==
    [ tm EXCEPT !.metas = [ h \in DOMAIN tm.metas \ {id} |-> tm.metas[h] ] ]

\* TextureManager::meta(id).map(bytes_used)
TextureManager_footprint(tm, id) ==
    IF id \in DOMAIN tm.metas THEN tm.metas[id] ELSE NotFound

Allocated(tm, id) == id \in DOMAIN tm.metas

----------------------------------------------------------------------------
(* State.                                                                   *)

VARIABLES
    bytes_parsers,        \* HashMap<String, Box<dyn BytesParser>>
    internal_text_man,    \* the shared TextureManager: [next_id, metas]
    placeholder_text_id,  \* TextureId of the 1x1 placeholder
    text_id_cache,        \* HashMap<(String, TextSize), CachedTexture>
    text_id_cache_size,   \* usize
    unload_strategy,      \* UnloadStrategy
    now,                  \* the last reading of SystemTime::now()
    overflow_checks,      \* whether the build panics on usize overflow
    last_call,            \* the public call that ran last, and how it ended
    failed_cached,        \* history: the keys with a placeholder cached by a
                          \* failed load_sized and not explicitly unloaded since
    lock_events           \* history: what the last call did with the lock of
                          \* internal_text_man and with its collaborators

\* DynamicTextureManager
VARIABLES
    bytes_cache,          \* HashMap<String, Arc<[u8]>>
    dtm_bytes_parsers,    \* bytes_parsers: HashMap<String, BytesParser>
    placeholder_tex_id,   \* TextureId of the 1x1 placeholder
    tex_id_cache,         \* HashMap<(String, TextureSize), TextureId>
    tex_manager,          \* the shared TextureManager: [next_id, metas]
    dtm_last_call         \* the public call that ran last, and how it ended

dyn_text_man_vars ==
    << bytes_parsers, internal_text_man, placeholder_text_id, text_id_cache,
       text_id_cache_size, unload_strategy, now, overflow_checks, last_call,
       failed_cached, lock_events >>

dtm_vars ==
    << bytes_cache, dtm_bytes_parsers, placeholder_tex_id, tex_id_cache,
       tex_manager, dtm_last_call >>

\* HttpBytesLoader
VARIABLES
    responses,            \* Arc<Mutex<HashMap<String, Response>>>
    responses_poisoned,   \* the Mutex is poisoned: a thread panicked holding it
    fetching,             \* per url, the fetches started whose callback is due
    http_results,         \* history: per url, what the last load(url) returned
    http_last_call        \* the load that ran last, and what it returned

http_vars ==
    << responses, responses_poisoned, fetching, http_results, http_last_call >>

\* DynTextMan of text_man.rs
VARIABLES
    bytes_parser,                  \* Box<dyn BytesParser>
    text_man_internal_text_man,    \* internal_text_man: [next_id, metas]
    text_man_placeholder_text_id,  \* placeholder_text_id
    text_man_text_id_cache,        \* text_id_cache: HashMap<(String, TextSize), TextureId>
    text_man_last_call             \* the public call that ran last

text_man_vars ==
    << bytes_parser, text_man_internal_text_man, text_man_placeholder_text_id,
       text_man_text_id_cache, text_man_last_call >>

vars == << dyn_text_man_vars, dtm_vars, http_vars, text_man_vars >>

NoHandle == -1

\* The part of the state the methods of DynTextMan change.
Self ==
    [ text_id_cache      |-> text_id_cache,
      text_id_cache_size |-> text_id_cache_size,
      internal_text_man  |-> internal_text_man,
      now                |-> now ]

----------------------------------------------------------------------------
(* Collaborators.                                                           *)

\* BytesParser::parse: a decode error for content that is no image; else the
\* svg parser rasterizes at the requested size, the png parser at the size the
\* content has.
parse(parser, bytes, size) ==
    IF ~bytes.valid
        THEN [ok |-> FALSE, pixels |-> 0]
        ELSE [ok |-> TRUE,
              pixels |-> IF parser = "svg" THEN size[1] * size[2] ELSE bytes.pixels]

\* SystemTime::now(): every reading is later than the one before.
SystemTime_now(s) == s.now + 1

----------------------------------------------------------------------------
(* DynTextMan (text_man/dyn_text_man.rs).                                   *)

Dots(url) == { i \in 1..Len(url) : url[i] = "." }

Last(S) == CHOOSE i \in S : \A j \in S : j <= i

\* Path::new(url).extension(): the part after the last dot of the file name,
\* none when there is no dot or the only dot starts the name.
file_ext_of(url) ==
    IF Dots(url) = {} \/ Last(Dots(url)) = 1
        THEN [ok |-> FALSE, ext |-> <<>>]
        ELSE [ok |-> TRUE, ext |-> SubSeq(url, Last(Dots(url)) + 1, Len(url))]

byte_size_of_text_id(id, text_man) == TextureManager_footprint(text_man, id)

alloc(s, pixels) == TextureManager_alloc(s.internal_text_man, pixels)

\* insert_into_cache with a key that leaves the size out: every size of a
\* url shares one entry.
insert_into_cache_by_url(s, url, size, text_id) ==
    [ s EXCEPT
        !.now = SystemTime_now(s),
        !.text_id_cache =
            [ k \in { j \in DOMAIN s.text_id_cache : j[1] # url } \cup {<<url, size>>} |->
                IF k = <<url, size>>
                    THEN [last_used |-> SystemTime_now(s), text_id |-> text_id]
                    ELSE s.text_id_cache[k] ] ]

insert_into_cache(s, url, size, text_id) ==
    [ s EXCEPT
        !.now = SystemTime_now(s),
        !.text_id_cache =
            [ k \in DOMAIN s.text_id_cache \cup {<<url, size>>} |->
                IF k = <<url, size>>
                    THEN [last_used |-> SystemTime_now(s), text_id |-> text_id]
                    ELSE s.text_id_cache[k] ] ]

\* usize subtraction and addition: a panic when the build checks overflow,
\* else the wrapped value.
Overflows(n) == n < 0 \/ n >= UsizeModulus

Wrap(n) == n % UsizeModulus

\* DynTextMan::unload.  res is "Ok", the error returned, or "Panic".
unload(s, url, size) ==
    IF <<url, size>> \notin DOMAIN s.text_id_cache
        THEN [self |-> s, res |-> "Ok"]
        ELSE
            LET text_id == s.text_id_cache[<<url, size>>].text_id
                removed ==
                    [ s EXCEPT !.text_id_cache =
                        [ k \in DOMAIN s.text_id_cache \ {<<url, size>>} |->
                            s.text_id_cache[k] ] ]
                bytes == byte_size_of_text_id(text_id, s.internal_text_man)
            IN  IF bytes = NotFound
                    THEN [self |-> removed, res |-> "CachedTextureNotFound"]
                ELSE IF Overflows(s.text_id_cache_size - bytes) /\ overflow_checks
                    THEN [self |-> removed, res |-> "Panic"]
                ELSE [ self |->
                         [ removed EXCEPT
                             !.text_id_cache_size = Wrap(s.text_id_cache_size - bytes),
                             !.internal_text_man = TextureManager_free(@, text_id) ],
                       res |-> "Ok" ]

\* A selection that takes the most recently used entry instead.
newest(s) ==
    CHOOSE k \in DOMAIN s.text_id_cache :
        \A j \in DOMAIN s.text_id_cache :
            s.text_id_cache[k].last_used >= s.text_id_cache[j].last_used

\* The entry min_by_key(last_used) selects.
oldest(s) ==
    CHOOSE k \in DOMAIN s.text_id_cache :
        \A j \in DOMAIN s.text_id_cache :
            s.text_id_cache[k].last_used <= s.text_id_cache[j].last_used

\* automatic_unload selecting with max_by_key in place of min_by_key.
RECURSIVE automatic_unload_of_newest(_)
automatic_unload_of_newest(s) ==
    IF unload_strategy.kind = "None"
        THEN [self |-> s, res |-> "Ok", evicted |-> <<>>]
    ELSE IF s.text_id_cache_size > unload_strategy.target
        THEN IF DOMAIN s.text_id_cache = {}
                THEN [self |-> s, res |-> "Hang", evicted |-> <<>>]
                ELSE
                    LET k == newest(s)
                        e == [ key |-> k, text_id |-> s.text_id_cache[k].text_id,
                               older |->
                                 { j \in DOMAIN s.text_id_cache :
                                     s.text_id_cache[j].last_used
                                        < s.text_id_cache[k].last_used } ]
                        u == unload(s, k[1], k[2])
                    IN  IF u.res # "Ok"
                            THEN [self |-> u.self, res |-> u.res, evicted |-> <<e>>]
                            ELSE [ automatic_unload_of_newest(u.self) EXCEPT
                                     !.evicted = <<e>> \o @ ]
    ELSE [self |-> s, res |-> "Ok", evicted |-> <<>>]

\* DynTextMan::automatic_unload.  res is "Ok", the error of the unload that
\* failed, "Panic", or "Hang" when the loop can no longer make progress;
\* evicted lists the entries it took out of the cache, in order, each with the
\* keys that were in the cache with a smaller last_used when it was taken.
RECURSIVE automatic_unload(_)
automatic_unload(s) ==
    IF unload_strategy.kind = "None"
        THEN [self |-> s, res |-> "Ok", evicted |-> <<>>]
    ELSE IF s.text_id_cache_size > unload_strategy.target
        THEN IF DOMAIN s.text_id_cache = {}
                THEN [self |-> s, res |-> "Hang", evicted |-> <<>>]
                ELSE
                    LET k == oldest(s)
                        e == [ key |-> k, text_id |-> s.text_id_cache[k].text_id,
                               older |->
                                 { j \in DOMAIN s.text_id_cache :
                                     s.text_id_cache[j].last_used
                                        < s.text_id_cache[k].last_used } ]
                        u == unload(s, k[1], k[2])
                    IN  IF u.res # "Ok"
                            THEN [self |-> u.self, res |-> u.res, evicted |-> <<e>>]
                            ELSE [ automatic_unload(u.self) EXCEPT
                                     !.evicted = <<e>> \o @ ]
    ELSE [self |-> s, res |-> "Ok", evicted |-> <<>>]

\* What load reports besides the state: the result, the texture id of an Ok,
\* and the collaborator calls and evictions it made.
LoadResult(s, res, text_id, loader_calls, parser_calls, evicted) ==
    [ self |-> s, res |-> res, text_id |-> text_id, loader_calls |-> loader_calls,
      parser_calls |-> parser_calls, evicted |-> evicted ]

\* DynTextMan::load, with lr the LoaderResult the bytes loader gives for url.
load(s, url, size, lr) ==
    IF <<url, size>> \in DOMAIN s.text_id_cache
        THEN LoadResult(
                [ s EXCEPT !.now = SystemTime_now(s),
                           !.text_id_cache[<<url, size>>].last_used = SystemTime_now(s) ],
                "Ok", s.text_id_cache[<<url, size>>].text_id, {}, {}, <<>>)
    ELSE IF lr.kind = "Again"
        THEN LoadResult(s, "Panic", NoHandle, {url}, {}, <<>>)
    ELSE IF lr.kind = "Err"
        THEN LoadResult(s, "Loader", NoHandle, {url}, {}, <<>>)
    ELSE IF ~file_ext_of(url).ok
        THEN LoadResult(s, "InvalidFileName", NoHandle, {url}, {}, <<>>)
    ELSE IF file_ext_of(url).ext \notin DOMAIN bytes_parsers
        THEN LoadResult(s, "NoParserRegisteredFor", NoHandle, {url}, {}, <<>>)
    ELSE
        LET ext == file_ext_of(url).ext
            pcall == [parser |-> bytes_parsers[ext], size |-> size]
            text == parse(bytes_parsers[ext], lr.bytes, size)
        IN  IF ~text.ok
                THEN LoadResult(s, "Parser", NoHandle, {url}, {pcall}, <<>>)
                ELSE
                    LET a == alloc(s, text.pixels)
                        text_id_size == byte_size_of_text_id(a.id, a.tm)
                        allocated == [s EXCEPT !.internal_text_man = a.tm]
                    IN  IF text_id_size = NotFound
                            THEN LoadResult(allocated, "CachedTextureNotFound",
                                            NoHandle, {url}, {pcall}, <<>>)
                        ELSE IF Overflows(s.text_id_cache_size + text_id_size)
                                /\ overflow_checks
                            THEN LoadResult(allocated, "Panic", NoHandle, {url},
                                            {pcall}, <<>>)
                        ELSE
                            LET u == automatic_unload(
                                        insert_into_cache(
                                            [ allocated EXCEPT !.text_id_cache_size =
                                                Wrap(@ + text_id_size) ],
                                            url, size, a.id))
                            IN  LoadResult(u.self, u.res,
                                           IF u.res = "Ok" THEN a.id ELSE NoHandle,
                                           {url}, {pcall}, u.evicted)

\* What the loader answered in the call right before this one, when that call
\* was a load_sized(url, size) too and returned.
Prior(op, url, size) ==
    IF op = "load_sized" /\ last_call.op = op /\ last_call.outcome = "returned"
            /\ last_call.url = url /\ last_call.size = size
        THEN { c.result : c \in last_call.loader_calls }
        ELSE {}

\* How a public call ended: op(url, size) returned ret, panicked or hung; err
\* is the error load or unload reported to it; loader_calls and parser_calls
\* are the calls it made to the collaborators, evicted the entries
\* automatic_unload took out.
Call(op, url, size, outcome, ret, err, loader_calls, parser_calls, evicted) ==
    [ op |-> op, url |-> url, size |-> size, outcome |-> outcome, ret |-> ret,
      err |-> err, loader_calls |-> loader_calls, parser_calls |-> parser_calls,
      evicted |-> evicted, prior |-> Prior(op, url, size) ]

\* What the loader answered in a call that asked it.
Answered(r, lr) ==
    [ r EXCEPT !.loader_calls = { [url |-> u, result |-> lr.kind] : u \in @ } ]

\* load_sized with the fallback of its Err arm left out: the placeholder is
\* returned and not put into the cache.
load_sized_without_fallback_insert(s, url, size, lr) ==
    LET r == Answered(load(s, url, size, lr), lr)
    IN  [ self |-> r.self,
          call |-> Call("load_sized", url, size,
                        IF r.res = "Panic" THEN "panicked"
                        ELSE IF r.res = "Hang" THEN "hung" ELSE "returned",
                        IF r.res = "Ok" THEN r.text_id
                        ELSE IF r.res \in {"Panic", "Hang"} THEN NoHandle
                        ELSE placeholder_text_id,
                        IF r.res \in {"Ok", "Panic", "Hang"} THEN "None" ELSE r.res,
                        r.loader_calls, r.parser_calls, r.evicted) ]

\* TextMan::load_sized of DynTextMan.
load_sized(s, url, size, lr) ==
    LET r == Answered(load(s, url, size, lr), lr)
    IN  IF r.res = "Ok"
            THEN [ self |-> r.self,
                   call |-> Call("load_sized", url, size, "returned", r.text_id, "None",
                                 r.loader_calls, r.parser_calls, r.evicted) ]
        ELSE IF r.res = "Panic"
            THEN [ self |-> r.self,
                   call |-> Call("load_sized", url, size, "panicked", NoHandle, "None",
                                 r.loader_calls, r.parser_calls, r.evicted) ]
        ELSE IF r.res = "Hang"
            THEN [ self |-> r.self,
                   call |-> Call("load_sized", url, size, "hung", NoHandle, "None",
                                 r.loader_calls, r.parser_calls, r.evicted) ]
        ELSE [ self |-> insert_into_cache(r.self, url, size, placeholder_text_id),
               call |-> Call("load_sized", url, size, "returned", placeholder_text_id,
                             r.res, r.loader_calls, r.parser_calls, r.evicted) ]

\* TextMan::unload_sized of DynTextMan: unload(..).unwrap().
unload_sized(s, url, size) ==
    LET r == unload(s, url, size)
    IN  [ self |-> r.self,
          call |-> Call("unload_sized", url, size,
                        IF r.res = "Ok" THEN "returned" ELSE "panicked",
                        NoHandle, IF r.res \in {"Ok", "Panic"} THEN "None" ELSE r.res,
                        {}, {}, <<>>) ]

----------------------------------------------------------------------------
(* The RwLock around the TextureManager.                                    *)

\* What a call does with the lock and with its collaborators, in order:
\* "write" and "read" take a guard of internal_text_man, "release" drops it;
\* "alloc", "footprint" and "free" are calls of the TextureManager; "loader"
\* and "parser" are a call of the bytes loader and of a bytes parser, from
\* its start to its return.

\* DynTextMan::alloc_in: the write guard is a temporary of the one statement.
alloc_in_events == <<"write", "alloc", "release">>

\* DynTextMan::unload: the write guard lives from line 177 to the end of the
\* if-let block, also when `?` returns early or the subtraction panics.
unload_events(s, url, size) ==
    IF <<url, size>> \notin DOMAIN s.text_id_cache
        THEN <<>>
        ELSE <<"write", "footprint">>
                \o (IF unload(s, url, size).res = "Ok" THEN <<"free">> ELSE <<>>)
                \o <<"release">>

\* DynTextMan::automatic_unload: the unloads of its loop, one after another.
RECURSIVE automatic_unload_events(_)
automatic_unload_events(s) ==
    IF unload_strategy.kind = "None"
        THEN <<>>
    ELSE IF s.text_id_cache_size > unload_strategy.target
                /\ DOMAIN s.text_id_cache # {}
        THEN LET k == oldest(s)
                 u == unload(s, k[1], k[2])
             IN  unload_events(s, k[1], k[2])
                    \o (IF u.res # "Ok" THEN <<>> ELSE automatic_unload_events(u.self))
    ELSE <<>>

\* DynTextMan::load with the read guard of line 131 taken where the function
\* starts and held to its end.
load_events_under_one_guard(s, url, size, lr) ==
    IF <<url, size>> \in DOMAIN s.text_id_cache
        THEN <<>>
    ELSE IF lr.kind # "Bytes"
        THEN <<"read", "loader", "release">>
    ELSE IF ~file_ext_of(url).ok \/ file_ext_of(url).ext \notin DOMAIN bytes_parsers
        THEN <<"read", "loader", "release">>
    ELSE <<"read", "loader", "parser", "release">>

\* DynTextMan::load: the loader at line 115 and the parser at lines 127-129
\* run before the first guard is taken; alloc takes and drops a write guard
\* (130), byte_size_of_text_id runs under a read guard that is a temporary
\* of its statement (131), and automatic_unload (136) comes last.
load_events(s, url, size, lr) ==
    IF <<url, size>> \in DOMAIN s.text_id_cache
        THEN <<>>
    ELSE IF lr.kind # "Bytes"
        THEN <<"loader">>
    ELSE IF ~file_ext_of(url).ok \/ file_ext_of(url).ext \notin DOMAIN bytes_parsers
        THEN <<"loader">>
    ELSE
        LET text == parse(bytes_parsers[file_ext_of(url).ext], lr.bytes, size)
            a == alloc(s, text.pixels)
            text_id_size == byte_size_of_text_id(a.id, a.tm)
        IN  IF ~text.ok
                THEN <<"loader", "parser">>
                ELSE <<"loader", "parser">> \o alloc_in_events
                        \o <<"read", "footprint", "release">>
                        \o IF text_id_size = NotFound
                                \/ (Overflows(s.text_id_cache_size + text_id_size)
                                        /\ overflow_checks)
                               THEN <<>>
                               ELSE automatic_unload_events(
                                        insert_into_cache(
                                            [ s EXCEPT
                                                !.internal_text_man = a.tm,
                                                !.text_id_cache_size =
                                                    Wrap(@ + text_id_size) ],
                                            url, size, a.id))

\* TextMan::load_sized of DynTextMan: the fallback of its Err arm inserts into
\* the cache and takes no guard.
load_sized_events(s, url, size, lr) == load_events(s, url, size, lr)

\* TextMan::unload_sized of DynTextMan.
unload_sized_events(s, url, size) == unload_events(s, url, size)

----------------------------------------------------------------------------
(* The cache as a state machine.                                            *)

NoCall ==
    [ op |-> "new", url |-> <<>>, size |-> <<0, 0>>, outcome |-> "returned",
      ret |-> NoHandle, err |-> "None", loader_calls |-> {}, parser_calls |-> {},
      evicted |-> <<>>, prior |-> {} ]

\* DynTextMan::new: the placeholder is the first texture allocated, a 1x1
\* image; nothing is cached and no parser is registered.  The unload strategy
\* is the one passed in, one of strategies.
DynTextMan_new(strategies) ==
    /\ unload_strategy \in strategies
    /\ overflow_checks \in BOOLEAN
    /\ internal_text_man =
          TextureManager_alloc([next_id |-> 0, metas |-> << >>], 1 * 1).tm
    /\ placeholder_text_id =
          TextureManager_alloc([next_id |-> 0, metas |-> << >>], 1 * 1).id
    /\ bytes_parsers = << >>
    /\ text_id_cache = << >>
    /\ text_id_cache_size = 0
    /\ now = 0
    /\ last_call = NoCall
    /\ failed_cached = {}
    /\ lock_events = alloc_in_events

\* No call is made after one panicked or hung.
Running == last_call.outcome = "returned"

Install(r) ==
    /\ text_id_cache' = r.self.text_id_cache
    /\ text_id_cache_size' = r.self.text_id_cache_size
    /\ internal_text_man' = r.self.internal_text_man
    /\ now' = r.self.now
    /\ last_call' = r.call

\* A consumer calls load_sized(url, size); the loader answers lr if asked.
\* Taken while fewer than clock readings of SystemTime::now() were made.
LoadSizedWithin(clock) ==
    \E url \in Urls, size \in TextSizes, lr \in LoaderResults :
        /\ <<url, size>> \in Keys
        /\ Running
        /\ now < clock
        /\ internal_text_man.next_id <= MaxAllocs
        /\ Install(load_sized(Self, url, size, lr))
        /\ failed_cached' =
              IF load_sized(Self, url, size, lr).call.outcome = "returned"
                    /\ load_sized(Self, url, size, lr).call.err # "None"
                  THEN failed_cached \cup {<<url, size>>}
                  ELSE failed_cached
        /\ lock_events' = load_sized_events(Self, url, size, lr)
        /\ UNCHANGED << bytes_parsers, placeholder_text_id, unload_strategy,
                        overflow_checks >>
        /\ UNCHANGED << dtm_vars, http_vars, text_man_vars >>

LoadSized == LoadSizedWithin(MaxClock)

\* A consumer calls unload_sized(url, size).
UnloadSized ==
    \E url \in Urls, size \in TextSizes :
        /\ <<url, size>> \in Keys
        /\ Running
        /\ Install(unload_sized(Self, url, size))
        /\ failed_cached' = failed_cached \ {<<url, size>>}
        /\ lock_events' = unload_sized_events(Self, url, size)
        /\ UNCHANGED << bytes_parsers, placeholder_text_id, unload_strategy,
                        overflow_checks >>
        /\ UNCHANGED << dtm_vars, http_vars, text_man_vars >>

\* A registration that keeps the parser an extension already has.
register_bytes_parser_if_absent(parsers, ext, parser) ==
    [ e \in DOMAIN parsers \cup {ext} |->
        IF e \in DOMAIN parsers THEN parsers[e] ELSE parser ]

\* DynTextMan::register_bytes_parser
register_bytes_parser(parsers, ext, parser) ==
    [ e \in DOMAIN parsers \cup {ext} |-> IF e = ext THEN parser ELSE parsers[e] ]

RegisterBytesParser ==
    \E ext \in Exts, parser \in Parsers :
        /\ Running
        /\ bytes_parsers' = register_bytes_parser(bytes_parsers, ext, parser)
        /\ last_call' = Call("register_bytes_parser", ext, <<0, 0>>, "returned",
                             NoHandle, "None", {}, {}, <<>>)
                            @@ [parser |-> parser]
        /\ lock_events' = <<>>
        /\ UNCHANGED << internal_text_man, placeholder_text_id, text_id_cache,
                        text_id_cache_size, unload_strategy, now, overflow_checks,
                        failed_cached >>
        /\ UNCHANGED << dtm_vars, http_vars, text_man_vars >>

----------------------------------------------------------------------------
(* DynamicTextureManager (dynamic_texture_manager.rs).                      *)

\* Option<&TextureSize>: None of load, Some(size) of load_sized.
None == [some |-> FALSE, size |-> <<0, 0>>]

Some(size) == [some |-> TRUE, size |-> size]

\* The extension the svg feature registers its parser for.
SvgExt == <<"s", "v", "g">>

\* The urls the consumer asks DynamicTextureManager for: one with an
\* extension, one without.
DtmUrls == { <<"a", ".", "p">>, <<"c">> }

\* The (url, size) pairs asked for: every url unsized, cached under (0, 0),
\* and one url at two sizes.
DtmSizedKeys == { k \in Keys : k[1] = <<"a", ".", "p">> }

DtmKeys == DtmSizedKeys \cup { <<url, <<0, 0>>>> : url \in DtmUrls }

\* The part of the state the methods of DynamicTextureManager change.
DtmSelf ==
    [ bytes_cache  |-> bytes_cache,
      tex_id_cache |-> tex_id_cache,
      tex_manager  |-> tex_manager ]

\* SVG_BYTES_PARSER: a BytesParser returns a ColorImage and no error; on
\* content that is no image it panics (unwrap).  It rasterizes at the size
\* asked for, or at the size of the content when none is given.
SVG_BYTES_PARSER(bytes, size) ==
    IF ~bytes.valid
        THEN [ok |-> FALSE, pixels |-> 0]
        ELSE [ok |-> TRUE,
              pixels |-> IF size.some THEN size.size[1] * size.size[2]
                                      ELSE bytes.pixels]

\* DynamicTextureManager::parse_bytes: expect panics when no parser is
\* registered for ext; called tells whether a parser ran.
parse_bytes(bytes, ext, size) ==
    IF ext \notin DOMAIN dtm_bytes_parsers
        THEN [called |-> FALSE, ok |-> FALSE, pixels |-> 0]
        ELSE [called |-> TRUE,
              ok     |-> SVG_BYTES_PARSER(bytes, size).ok,
              pixels |-> SVG_BYTES_PARSER(bytes, size).pixels]

\* tex_id_cache.insert((url, size), tex_id)
tex_id_cache_insert(d, url, size, tex_id) ==
    [ d EXCEPT !.tex_id_cache =
        [ k \in DOMAIN d.tex_id_cache \cup {<<url, size>>} |->
            IF k = <<url, size>> THEN tex_id ELSE d.tex_id_cache[k] ] ]

\* DynamicTextureManager::get_and_cache_placeholder_tex_for
get_and_cache_placeholder_tex_for(d, url, size) ==
    tex_id_cache_insert(d, url, size, placeholder_tex_id)

\* What internal_load reports besides the state: whether it returned or
\* panicked, the texture id returned, and the collaborator calls it made.
DtmResult(d, outcome, ret, loader_calls, parser_calls) ==
    [ self |-> d, outcome |-> outcome, ret |-> ret, loader_calls |-> loader_calls,
      parser_calls |-> parser_calls ]

\* internal_load from the point where the bytes are at hand: parse, alloc,
\* insert into tex_id_cache.
parse_and_alloc(d, url, size, bytes, loader_calls) ==
    LET image == parse_bytes(bytes, file_ext_of(url).ext, size)
        pcalls == IF image.called
                      THEN { [parser |-> dtm_bytes_parsers[file_ext_of(url).ext],
                              size |-> size] }
                      ELSE {}
        a == TextureManager_alloc(d.tex_manager, image.pixels)
    IN  IF ~image.ok
            THEN DtmResult(d, "panicked", NoHandle, loader_calls, pcalls)
            ELSE DtmResult(
                    tex_id_cache_insert([d EXCEPT !.tex_manager = a.tm], url,
                                        IF size.some THEN size.size ELSE <<0, 0>>,
                                        a.id),
                    "returned", a.id, loader_calls, pcalls)

\* internal_load with an Again arm that caches the placeholder it returns.
internal_load_caching_again(d, url, size, lr) ==
    LET size_or_zero == IF size.some THEN size.size ELSE <<0, 0>>
        asked == { [url |-> url, result |-> lr.kind] }
    IN  IF <<url, size_or_zero>> \in DOMAIN d.tex_id_cache
            THEN DtmResult(d, "returned", d.tex_id_cache[<<url, size_or_zero>>],
                           {}, {})
        ELSE IF ~file_ext_of(url).ok
            THEN DtmResult(get_and_cache_placeholder_tex_for(d, url, size_or_zero),
                           "returned", placeholder_tex_id, {}, {})
        ELSE IF url \in DOMAIN d.bytes_cache
            THEN parse_and_alloc(d, url, size, d.bytes_cache[url], {})
        ELSE IF lr.kind = "Bytes"
            THEN parse_and_alloc(d, url, size, lr.bytes, asked)
        ELSE DtmResult(get_and_cache_placeholder_tex_for(d, url, size_or_zero),
                       "returned", placeholder_tex_id, asked, {})

\* internal_load without the lookup in tex_id_cache that opens it.
internal_load_without_cache_lookup(d, url, size, lr) ==
    LET size_or_zero == IF size.some THEN size.size ELSE <<0, 0>>
        asked == { [url |-> url, result |-> lr.kind] }
    IN  IF ~file_ext_of(url).ok
            THEN DtmResult(get_and_cache_placeholder_tex_for(d, url, size_or_zero),
                           "returned", placeholder_tex_id, {}, {})
        ELSE IF url \in DOMAIN d.bytes_cache
            THEN parse_and_alloc(d, url, size, d.bytes_cache[url], {})
        ELSE IF lr.kind = "Again"
            THEN DtmResult(d, "returned", placeholder_tex_id, asked, {})
        ELSE IF lr.kind = "Bytes"
            THEN parse_and_alloc(d, url, size, lr.bytes, asked)
        ELSE DtmResult(get_and_cache_placeholder_tex_for(d, url, size_or_zero),
                       "returned", placeholder_tex_id, asked, {})

\* DynamicTextureManager::internal_load, with lr the LoaderResult the bytes
\* loader gives for url.
internal_load(d, url, size, lr) ==
    LET size_or_zero == IF size.some THEN size.size ELSE <<0, 0>>
        asked == { [url |-> url, result |-> lr.kind] }
    IN  IF <<url, size_or_zero>> \in DOMAIN d.tex_id_cache
            THEN DtmResult(d, "returned", d.tex_id_cache[<<url, size_or_zero>>],
                           {}, {})
        ELSE IF ~file_ext_of(url).ok
            THEN DtmResult(get_and_cache_placeholder_tex_for(d, url, size_or_zero),
                           "returned", placeholder_tex_id, {}, {})
        ELSE IF url \in DOMAIN d.bytes_cache
            THEN parse_and_alloc(d, url, size, d.bytes_cache[url], {})
        ELSE IF lr.kind = "Again"
            THEN DtmResult(d, "returned", placeholder_tex_id, asked, {})
        ELSE IF lr.kind = "Bytes"
            THEN parse_and_alloc(d, url, size, lr.bytes, asked)
        ELSE DtmResult(get_and_cache_placeholder_tex_for(d, url, size_or_zero),
                       "returned", placeholder_tex_id, asked, {})

\* DynamicTextureManager::load
DynamicTextureManager_load(d, url, lr) == internal_load(d, url, None, lr)

\* DynamicTextureManager::load_sized
DynamicTextureManager_load_sized(d, url, size, lr) ==
    internal_load(d, url, Some(size), lr)

\* DynamicTextureManager::unload_sized
DynamicTextureManager_unload_sized(d, url, size) ==
    [ d EXCEPT !.tex_id_cache =
        [ k \in DOMAIN d.tex_id_cache \ {<<url, size>>} |-> d.tex_id_cache[k] ] ]

\* DynamicTextureManager::unload dropping the entries of url at every size.
DynamicTextureManager_unload_every_size(d, url) ==
    [ d EXCEPT
        !.bytes_cache =
            [ u \in DOMAIN d.bytes_cache \ {url} |-> d.bytes_cache[u] ],
        !.tex_id_cache =
            [ k \in { j \in DOMAIN d.tex_id_cache : j[1] # url } |->
                d.tex_id_cache[k] ] ]

\* DynamicTextureManager::unload
DynamicTextureManager_unload(d, url) ==
    [ d EXCEPT
        !.bytes_cache =
            [ u \in DOMAIN d.bytes_cache \ {url} |-> d.bytes_cache[u] ],
        !.tex_id_cache =
            [ k \in DOMAIN d.tex_id_cache \ {<<url, <<0, 0>>>>} |->
                d.tex_id_cache[k] ] ]

\* DynamicTextureManager::set_byte_parser_for
set_byte_parser_for(parsers, extension, parser) ==
    [ e \in DOMAIN parsers \cup {extension} |->
        IF e = extension THEN parser ELSE parsers[e] ]

\* The call right before this one, when that call was a load of the same key
\* and returned: what it returned, and whether the key is in tex_id_cache
\* since.
DtmPrior(op, url, size) ==
    IF op \in {"load", "load_sized"} /\ dtm_last_call.op = op
            /\ dtm_last_call.outcome = "returned"
            /\ dtm_last_call.url = url /\ dtm_last_call.size = size
        THEN { [ ret    |-> dtm_last_call.ret,
                 cached |-> <<url, size>> \in DOMAIN tex_id_cache ] }
        ELSE {}

\* How a public call ended: op(url, size), with size (0, 0) for a call that
\* takes none.
DtmCall(op, url, size, outcome, ret, loader_calls, parser_calls) ==
    [ op |-> op, url |-> url, size |-> size, outcome |-> outcome, ret |-> ret,
      loader_calls |-> loader_calls, parser_calls |-> parser_calls,
      prior |-> DtmPrior(op, url, size) ]

\* DynamicTextureManager::new: the placeholder is the first texture allocated,
\* a 1x1 image; the caches are empty; the svg parser is registered when the
\* svg feature is enabled.
DynamicTextureManager_new ==
    /\ tex_manager =
          TextureManager_alloc([next_id |-> 0, metas |-> << >>], 1 * 1).tm
    /\ placeholder_tex_id =
          TextureManager_alloc([next_id |-> 0, metas |-> << >>], 1 * 1).id
    /\ dtm_bytes_parsers \in { << >>, SvgExt :> "SVG_BYTES_PARSER" }
    /\ bytes_cache = << >>
    /\ tex_id_cache = << >>
    /\ dtm_last_call =
          [ op |-> "new", url |-> <<>>, size |-> <<0, 0>>, outcome |-> "returned",
            ret |-> NoHandle, loader_calls |-> {}, parser_calls |-> {},
            prior |-> {} ]

\* No call is made after one panicked.
DtmRunning == dtm_last_call.outcome = "returned"

DtmInstall(d, call) ==
    /\ bytes_cache' = d.bytes_cache
    /\ tex_id_cache' = d.tex_id_cache
    /\ tex_manager' = d.tex_manager
    /\ dtm_last_call' = call
    /\ UNCHANGED << dtm_bytes_parsers, placeholder_tex_id >>
    /\ UNCHANGED << dyn_text_man_vars, http_vars, text_man_vars >>

\* A consumer calls load(url); the loader answers lr if asked.
DtmLoad ==
    \E url \in DtmUrls, lr \in LoaderResults :
        /\ DtmRunning
        /\ tex_manager.next_id <= MaxAllocs
        /\ LET r == DynamicTextureManager_load(DtmSelf, url, lr)
           IN  DtmInstall(r.self,
                          DtmCall("load", url, <<0, 0>>, r.outcome, r.ret,
                                  r.loader_calls, r.parser_calls))

\* A consumer calls load_sized(url, size); the loader answers lr if asked.
DtmLoadSized ==
    \E url \in DtmUrls, size \in TextSizes, lr \in LoaderResults :
        /\ <<url, size>> \in DtmSizedKeys
        /\ DtmRunning
        /\ tex_manager.next_id <= MaxAllocs
        /\ LET r == DynamicTextureManager_load_sized(DtmSelf, url, size, lr)
           IN  DtmInstall(r.self,
                          DtmCall("load_sized", url, size, r.outcome, r.ret,
                                  r.loader_calls, r.parser_calls))

\* A consumer calls unload(url).
DtmUnload ==
    \E url \in DtmUrls :
        /\ DtmRunning
        /\ DtmInstall(DynamicTextureManager_unload(DtmSelf, url),
                      DtmCall("unload", url, <<0, 0>>, "returned", NoHandle, {}, {}))

\* A consumer calls unload_sized(url, size).
DtmUnloadSized ==
    \E url \in DtmUrls, size \in TextSizes \cup {<<0, 0>>} :
        /\ <<url, size>> \in DtmKeys
        /\ DtmRunning
        /\ DtmInstall(DynamicTextureManager_unload_sized(DtmSelf, url, size),
                      DtmCall("unload_sized", url, size, "returned", NoHandle,
                              {}, {}))

\* A consumer calls set_byte_parser_for(extension, SVG_BYTES_PARSER).
DtmSetByteParserFor ==
    \E extension \in Exts :
        /\ DtmRunning
        /\ dtm_bytes_parsers' =
              set_byte_parser_for(dtm_bytes_parsers, extension, "SVG_BYTES_PARSER")
        /\ dtm_last_call' =
              DtmCall("set_byte_parser_for", extension, <<0, 0>>, "returned",
                      NoHandle, {}, {})
        /\ UNCHANGED << bytes_cache, placeholder_tex_id, tex_id_cache, tex_manager >>
        /\ UNCHANGED << dyn_text_man_vars, http_vars, text_man_vars >>
----------------------------------------------------------------------------
(* HttpBytesLoader (dynamic_texture_manager/bytes_loader/                   *)
(* http_bytes_loader.rs, and its copy in text_man/bytes_loader.rs).         *)

\* Number of fetches of one url that may be under way at a time.
MaxFetches == 2

\* The urls asked of the loader.
HttpUrls == { <<"a", ".", "p">>, <<"b", ".", "p">> }

\* ehttp::Response: ok with its bytes, or not ok with its status text.
Responses ==
    { [ok |-> FALSE, bytes |-> [valid |-> FALSE, pixels |-> 0]] }
        \cup { [ok |-> TRUE, bytes |-> b] : b \in LoadedBytes }

\* The part of the state load and the callbacks change.
HttpSelf == [ responses |-> responses, fetching |-> fetching ]

\* HttpBytesLoader::load with a look at the response in place of its removal.
HttpBytesLoader_load_keeping_response(h, url) ==
    IF responses_poisoned
        THEN [self |-> h, result |-> "Panic"]
    ELSE IF url \in DOMAIN h.responses
        THEN [ self |-> h,
               result |-> IF h.responses[url].ok THEN "Bytes" ELSE "Err" ]
    ELSE [ self |-> [h EXCEPT !.fetching[url] = @ + 1], result |-> "Again" ]

\* HttpBytesLoader::load.  lock().unwrap() panics on a poisoned Mutex; a
\* stored response is removed and handed out as Bytes or Err; else a fetch is
\* started, whatever is under way, and the answer is Again.
HttpBytesLoader_load(h, url) ==
    IF responses_poisoned
        THEN [self |-> h, result |-> "Panic"]
    ELSE IF url \in DOMAIN h.responses
        THEN [ self |->
                 [ h EXCEPT !.responses =
                     [ u \in DOMAIN h.responses \ {url} |-> h.responses[u] ] ],
               result |-> IF h.responses[url].ok THEN "Bytes" ELSE "Err" ]
    ELSE [ self |-> [h EXCEPT !.fetching[url] = @ + 1], result |-> "Again" ]

\* The callback given to fetch, run with Ok(response):
\* responses.lock().unwrap().insert(url, response).
fetch_callback(h, url, response) ==
    [ h EXCEPT
        !.fetching[url] = @ - 1,
        !.responses = [ u \in DOMAIN h.responses \cup {url} |->
                          IF u = url THEN response ELSE h.responses[u] ] ]

\* HttpBytesLoader::new
HttpBytesLoader_new ==
    /\ responses = << >>
    /\ responses_poisoned = FALSE
    /\ fetching = [ url \in HttpUrls |-> 0 ]
    /\ http_results = [ url \in HttpUrls |-> "None" ]
    /\ http_last_call = [url |-> <<>>, result |-> "None", prior |-> "None"]

\* No load is made after one panicked.
HttpRunning == http_last_call.result # "Panic"

\* The cache calls load(url).
HttpLoad(url) ==
    /\ HttpRunning
    /\ url \notin DOMAIN responses => fetching[url] < MaxFetches
    /\ LET r == HttpBytesLoader_load(HttpSelf, url)
       IN  /\ responses' = r.self.responses
           /\ fetching' = r.self.fetching
           /\ http_results' = [http_results EXCEPT ![url] = r.result]
           /\ http_last_call' =
                 [url |-> url, result |-> r.result, prior |-> http_results[url]]
    /\ UNCHANGED responses_poisoned
    /\ UNCHANGED << dyn_text_man_vars, dtm_vars, text_man_vars >>

\* A fetch of url ends with a response, and its callback stores it.
HttpFetchDone(url) ==
    /\ fetching[url] > 0
    /\ ~responses_poisoned
    /\ \E response \in Responses :
          /\ responses' = fetch_callback(HttpSelf, url, response).responses
          /\ fetching' = fetch_callback(HttpSelf, url, response).fetching
    /\ UNCHANGED << responses_poisoned, http_results, http_last_call >>
    /\ UNCHANGED << dyn_text_man_vars, dtm_vars, text_man_vars >>

\* A fetch of url ends with Err: in the callback the guard of responses is
\* taken first, then result.unwrap() panics, which poisons the Mutex and
\* stores nothing.  On a poisoned Mutex the callback panics at lock().unwrap().
HttpFetchFails(url) ==
    /\ fetching[url] > 0
    /\ fetching' = [fetching EXCEPT ![url] = @ - 1]
    /\ responses_poisoned' = TRUE
    /\ UNCHANGED << responses, http_results, http_last_call >>
    /\ UNCHANGED << dyn_text_man_vars, dtm_vars, text_man_vars >>

\* An HttpBytesLoader nobody calls.
HttpBytesLoaderUnused == HttpBytesLoader_new

----------------------------------------------------------------------------
(* DynTextMan of text_man.rs, the cache with one parser and no accounting.  *)

\* The part of the state its methods change.
TextManSelf ==
    [ text_id_cache     |-> text_man_text_id_cache,
      internal_text_man |-> text_man_internal_text_man ]

\* What the loader hands to this cache as Bytes: content the parser decodes.
TextManLoaderResults ==
    { lr \in LoaderResults : lr.kind = "Bytes" => lr.bytes.valid }

\* DynTextMan::try_get_file_ext: Continue(ext), or Break(placeholder) for a
\* url without extension.
try_get_file_ext(url) == file_ext_of(url)

\* What load reports besides the state: whether it returned or panicked, the
\* texture id returned, and the argument and answer of each loader call.
TextManResult(t, outcome, ret, loader_calls) ==
    [ self |-> t, outcome |-> outcome, ret |-> ret, loader_calls |-> loader_calls ]

\* DynTextMan::load of text_man.rs, with lr what the bytes loader gives.  The
\* loader is called with file_ext (line 76); Again and Err are todo!().
TextMan_load(t, url, size, lr) ==
    IF <<url, size>> \in DOMAIN t.text_id_cache
        THEN TextManResult(t, "returned", t.text_id_cache[<<url, size>>], {})
    ELSE IF ~try_get_file_ext(url).ok
        THEN TextManResult(t, "returned", text_man_placeholder_text_id, {})
    ELSE
        LET file_ext == try_get_file_ext(url).ext
            asked == { [url |-> file_ext, result |-> lr.kind] }
            text == parse(bytes_parser, lr.bytes, size)
            a == TextureManager_alloc(t.internal_text_man, text.pixels)
        IN  IF lr.kind # "Bytes"
                THEN TextManResult(t, "panicked", NoHandle, asked)
                ELSE TextManResult(
                        [ internal_text_man |-> a.tm,
                          text_id_cache |->
                            [ k \in DOMAIN t.text_id_cache \cup {<<url, size>>} |->
                                IF k = <<url, size>> THEN a.id
                                                     ELSE t.text_id_cache[k] ] ],
                        "returned", a.id, asked)

\* DynTextMan::unload of text_man.rs
TextMan_unload(t, url, size) ==
    [ t EXCEPT !.text_id_cache =
        [ k \in DOMAIN t.text_id_cache \ {<<url, size>>} |-> t.text_id_cache[k] ] ]

\* How a public call ended.
TextManCall(op, url, size, outcome, ret, loader_calls) ==
    [ op |-> op, url |-> url, size |-> size, outcome |-> outcome, ret |-> ret,
      loader_calls |-> loader_calls ]

\* DynTextMan::new of text_man.rs: the placeholder is the first texture
\* allocated; the parser is the one passed in.
TextMan_new ==
    /\ text_man_internal_text_man =
          TextureManager_alloc([next_id |-> 0, metas |-> << >>], 1 * 1).tm
    /\ text_man_placeholder_text_id =
          TextureManager_alloc([next_id |-> 0, metas |-> << >>], 1 * 1).id
    /\ bytes_parser \in Parsers
    /\ text_man_text_id_cache = << >>
    /\ text_man_last_call =
          TextManCall("new", <<>>, <<0, 0>>, "returned", NoHandle, {})

\* No call is made after one panicked.
TextManRunning == text_man_last_call.outcome = "returned"

\* A consumer calls load_sized(url, size); the loader answers lr if asked.
TextManLoadSized ==
    \E url \in Urls, size \in TextSizes, lr \in TextManLoaderResults :
        /\ <<url, size>> \in Keys
        /\ TextManRunning
        /\ text_man_internal_text_man.next_id <= MaxAllocs
        /\ LET r == TextMan_load(TextManSelf, url, size, lr)
           IN  /\ text_man_text_id_cache' = r.self.text_id_cache
               /\ text_man_internal_text_man' = r.self.internal_text_man
               /\ text_man_last_call' =
                     TextManCall("load_sized", url, size, r.outcome, r.ret,
                                 r.loader_calls)
        /\ UNCHANGED << text_man_placeholder_text_id, bytes_parser >>
        /\ UNCHANGED << dyn_text_man_vars, dtm_vars, http_vars >>

\* A consumer calls unload_sized(url, size).
TextManUnloadSized ==
    \E url \in Urls, size \in TextSizes :
        /\ <<url, size>> \in Keys
        /\ TextManRunning
        /\ text_man_text_id_cache' =
              TextMan_unload(TextManSelf, url, size).text_id_cache
        /\ text_man_last_call' =
              TextManCall("unload_sized", url, size, "returned", NoHandle, {})
        /\ UNCHANGED << text_man_internal_text_man, text_man_placeholder_text_id,
                        bytes_parser >>
        /\ UNCHANGED << dyn_text_man_vars, dtm_vars, http_vars >>

\* A DynTextMan of text_man.rs nobody calls.
TextManUnused == TextMan_new /\ bytes_parser = "png"

----------------------------------------------------------------------------
(* The specifications.                                                      *)

\* A DynTextMan nobody calls.
DynTextManUnused ==
    /\ DynTextMan_new({[kind |-> "None"]})
    /\ overflow_checks = FALSE

\* A DynamicTextureManager nobody calls.
DynamicTextureManagerUnused ==
    /\ DynamicTextureManager_new
    /\ dtm_bytes_parsers = << >>

Init ==
    /\ DynTextMan_new(UnloadStrategies)
    /\ DynamicTextureManagerUnused
    /\ HttpBytesLoaderUnused
    /\ TextManUnused

Next == LoadSized \/ UnloadSized \/ RegisterBytesParser

Spec == Init /\ [][Next]_vars

\* DynTextMan built with UnloadStrategy::TargetCacheSize(LruTarget), followed
\* for one more call than under Spec.
InitLRU ==
    /\ DynTextMan_new({[kind |-> "TargetCacheSize", target |-> LruTarget]})
    /\ DynamicTextureManagerUnused
    /\ HttpBytesLoaderUnused
    /\ TextManUnused

LruLoadSized == LoadSizedWithin(MaxClock + 1)

NextLRU == LruLoadSized \/ UnloadSized \/ RegisterBytesParser

SpecLRU == InitLRU /\ [][NextLRU]_vars

InitDTM ==
    /\ DynamicTextureManager_new
    /\ DynTextManUnused
    /\ HttpBytesLoaderUnused
    /\ TextManUnused

NextDTM ==
    DtmLoad \/ DtmLoadSized \/ DtmUnload \/ DtmUnloadSized \/ DtmSetByteParserFor

SpecDTM == InitDTM /\ [][NextDTM]_vars

\* HttpBytesLoader, its fetches and the cache that calls load.
InitHttp ==
    /\ HttpBytesLoader_new
    /\ DynTextManUnused
    /\ DynamicTextureManagerUnused
    /\ TextManUnused

NextHttp ==
    \E url \in HttpUrls : HttpLoad(url) \/ HttpFetchDone(url) \/ HttpFetchFails(url)

SpecHttp == InitHttp /\ [][NextHttp]_vars

\* DynTextMan of text_man.rs.
InitTextMan ==
    /\ TextMan_new
    /\ DynTextManUnused
    /\ DynamicTextureManagerUnused
    /\ HttpBytesLoaderUnused

NextTextMan == TextManLoadSized \/ TextManUnloadSized

SpecTextMan == InitTextMan /\ [][NextTextMan]_vars

\* The same with a cache that goes on calling load(url) for every url, and
\* with fetches that end: a fetch that can deliver its response does so.
FairSpecHttp ==
    /\ SpecHttp
    /\ \A url \in HttpUrls : WF_vars(HttpLoad(url)) /\ WF_vars(HttpFetchDone(url))

----------------------------------------------------------------------------
(* Properties.                                                              *)

IsPlaceholder(k) == text_id_cache[k].text_id = placeholder_text_id

\* The footprint an index entry stands for: nothing for a key mapped to the
\* placeholder, else what the TextureManager reports for its texture (a
\* texture's footprint never changes after alloc).
EntryFootprint(k) ==
    IF IsPlaceholder(k)
        THEN 0
        ELSE TextureManager_footprint(internal_text_man, text_id_cache[k].text_id)

RECURSIVE SumFootprints(_)
SumFootprints(ks) ==
    IF ks = {} THEN 0
    ELSE LET k == CHOOSE x \in ks : TRUE
         IN  EntryFootprint(k) + SumFootprints(ks \ {k})

Returned(op) == last_call.op = op /\ last_call.outcome = "returned"

\* C1: after any sequence of calls that returned, text_id_cache_size equals the
\* sum of the footprints of the entries in the index, a placeholder entry
\* counting 0.
C1_SizeIsSumOfFootprints ==
    Running => text_id_cache_size = SumFootprints(DOMAIN text_id_cache)

\* C2: every entry of the index, placeholder entries included, holds a texture
\* id that is allocated in the TextureManager.
C2_IndexHandlesAllocated ==
    Running =>
        \A k \in DOMAIN text_id_cache :
            Allocated(internal_text_man, text_id_cache[k].text_id)

\* C3: the texture id load_sized returns is allocated in the TextureManager at
\* the moment load_sized returns.
C3_ReturnedHandleAllocated ==
    Returned("load_sized") => Allocated(internal_text_man, last_call.ret)

\* C4: load_sized returns a texture id for every key and every answer of the
\* loader and the parser: it never panics and never fails to return.
C4_GetAlwaysReturns ==
    last_call.op = "load_sized" =>
        last_call.outcome = "returned" /\ last_call.ret # NoHandle

\* C5: the placeholder stays allocated forever, and automatic unloading never
\* selects an entry that holds the placeholder.
C5_PlaceholderNeverFreed ==
    /\ Allocated(internal_text_man, placeholder_text_id)
    /\ \A i \in DOMAIN last_call.evicted :
          last_call.evicted[i].text_id # placeholder_text_id

\* The step is a call op(k[1], k[2]).
Calls(op, k) ==
    /\ last_call'.op = op
    /\ <<last_call'.url, last_call'.size>> = k

\* The call before the step was op(k[1], k[2]), and it returned.
Called(op, k) ==
    /\ Returned(op)
    /\ <<last_call.url, last_call.size>> = k

NoCollaboratorCalled(call) == call.loader_calls = {} /\ call.parser_calls = {}

LoaderAnswered(call, kind) == \E c \in call.loader_calls : c.result = kind

DtmLoaded ==
    dtm_last_call.op \in {"load", "load_sized"} /\ dtm_last_call.outcome = "returned"

\* C6 as stated, of DynamicTextureManager: two loads of the same key with
\* nothing in between return the same texture id, and the second one calls
\* neither loader nor parser.
C6_SecondGetIsHit ==
    dtm_last_call.op \in {"load", "load_sized"} =>
        \A p \in dtm_last_call.prior :
            /\ dtm_last_call.outcome = "returned"
            /\ dtm_last_call.ret = p.ret
            /\ NoCollaboratorCalled(dtm_last_call)

\* C6, amended: when a load left its key in tex_id_cache (it does unless the
\* loader said Again), a load of the same key right after it returns the
\* same texture id and calls neither loader nor parser.
C6_CachedSecondGetIsHit ==
    dtm_last_call.op \in {"load", "load_sized"} =>
        \A p \in dtm_last_call.prior :
            p.cached =>
                /\ dtm_last_call.outcome = "returned"
                /\ dtm_last_call.ret = p.ret
                /\ NoCollaboratorCalled(dtm_last_call)

\* C6, the case reached: the second of two loads of one key has returned the
\* texture the first one allocated and cached.
C6_Witness ==
    /\ DtmLoaded
    /\ dtm_last_call.ret # placeholder_tex_id
    /\ \E p \in dtm_last_call.prior : p.cached /\ p.ret = dtm_last_call.ret

\* The amended C6 of DynTextMan: when load_sized left its key in text_id_cache,
\* a load_sized of the same key right after it returns the same texture id
\* and calls neither loader nor parser.
DynTextMan_CachedSecondGetIsHit ==
    [][ \A k \in Keys :
          /\ Called("load_sized", k)
          /\ k \in DOMAIN text_id_cache
          /\ Calls("load_sized", k)
          => /\ last_call'.outcome = "returned"
             /\ last_call'.ret = last_call.ret
             /\ NoCollaboratorCalled(last_call') ]_vars

\* C6 as stated, of DynTextMan.
DynTextMan_SecondGetIsHit ==
    [][ \A k \in Keys :
          Called("load_sized", k) /\ Calls("load_sized", k) =>
              /\ last_call'.outcome = "returned"
              /\ last_call'.ret = last_call.ret
              /\ NoCollaboratorCalled(last_call') ]_vars

\* C7: when the loader answers Again, load_sized returns the placeholder and
\* leaves the index as it was.
C7_AgainReturnsPlaceholder ==
    [][ last_call'.op = "load_sized" /\ LoaderAnswered(last_call', "Again") =>
          /\ last_call'.outcome = "returned"
          /\ last_call'.ret = placeholder_text_id
          /\ text_id_cache' = text_id_cache ]_vars

\* C8: when the loader answers Err, load_sized returns the placeholder and
\* maps the key to it in the index; a load_sized for the same key right after
\* returns the placeholder without calling the loader.
C8_LoaderErrCachesPlaceholder ==
    /\ last_call.op = "load_sized" /\ LoaderAnswered(last_call, "Err") =>
          /\ last_call.outcome = "returned"
          /\ last_call.ret = placeholder_text_id
          /\ <<last_call.url, last_call.size>> \in DOMAIN text_id_cache
          /\ IsPlaceholder(<<last_call.url, last_call.size>>)
    /\ last_call.op = "load_sized" /\ "Err" \in last_call.prior =>
          /\ last_call.outcome = "returned"
          /\ last_call.ret = placeholder_text_id
          /\ last_call.loader_calls = {}

\* C8, the case reached: the load_sized right after the one the loader
\* failed, for the same key, has returned.
C8_Witness ==
    /\ Returned("load_sized")
    /\ "Err" \in last_call.prior
    /\ <<last_call.url, last_call.size>> \in failed_cached

\* The first half of C8 of DynamicTextureManager: when the loader answers Err,
\* the load returns the placeholder and maps the key to it in tex_id_cache
\* (the second half is the amended C6).
DynamicTextureManager_LoaderErrCachesPlaceholder ==
    dtm_last_call.op \in {"load", "load_sized"} /\ LoaderAnswered(dtm_last_call, "Err") =>
        /\ dtm_last_call.outcome = "returned"
        /\ dtm_last_call.ret = placeholder_tex_id
        /\ <<dtm_last_call.url, dtm_last_call.size>> \in DOMAIN tex_id_cache
        /\ tex_id_cache[<<dtm_last_call.url, dtm_last_call.size>>] = placeholder_tex_id

\* C11: under TargetCacheSize, every entry automatic_unload removes has, when
\* it is removed, the smallest last_used of the entries in the cache: no key
\* of the cache is older.  So an entry that was used again after a later one
\* was inserted outlives that later one.
C11_EvictsLeastRecentlyUsed ==
    \A i \in DOMAIN last_call.evicted : last_call.evicted[i].older = {}

\* C11, the case reached: with k1, k2 inserted in this order, k1 loaded again
\* and k3 inserted, the pass took out k2 alone; k1, the texture allocated
\* before k2's, and k3 are in the cache.
C11_Witness ==
    /\ Returned("load_sized")
    /\ Len(last_call.evicted) = 1
    /\ last_call.evicted[1].text_id # placeholder_text_id
    /\ <<last_call.url, last_call.size>> \in DOMAIN text_id_cache
    /\ \E k1 \in DOMAIN text_id_cache :
          /\ k1 # <<last_call.url, last_call.size>>
          /\ ~IsPlaceholder(k1)
          /\ text_id_cache[k1].text_id < last_call.evicted[1].text_id

\* The call was a load_sized that missed, got its texture decoded and
\* allocated, inserted it into the cache, and returned.
InsertedAndReturned ==
    /\ Returned("load_sized")
    /\ last_call.parser_calls # {}
    /\ last_call.err # "Parser"

\* C12: automatic_unload never takes out the entry inserted by the load_sized
\* that ran it: after a load_sized that inserted its texture, the key is in
\* the cache with the texture returned, however large the texture is.
C12_JustInsertedNeverEvicted ==
    /\ last_call.op = "load_sized" =>
          \A i \in DOMAIN last_call.evicted :
              last_call.evicted[i].key # <<last_call.url, last_call.size>>
    /\ InsertedAndReturned /\ last_call.err = "None" =>
          /\ <<last_call.url, last_call.size>> \in DOMAIN text_id_cache
          /\ text_id_cache[<<last_call.url, last_call.size>>].text_id = last_call.ret

\* C13: under TargetCacheSize(N), when a load_sized that inserted its texture
\* returns, text_id_cache_size <= N or the cache holds the entry of its key
\* alone.
C13_BudgetAfterInsertion ==
    unload_strategy.kind = "TargetCacheSize" /\ InsertedAndReturned =>
        \/ text_id_cache_size <= unload_strategy.target
        \/ DOMAIN text_id_cache = { <<last_call.url, last_call.size>> }

\* C14: a load_sized that decodes a url at one size while the cache holds the
\* url at another size, and has no need to evict, leaves two entries with two
\* different textures; the parser was given the size of this call, and
\* text_id_cache_size, when it was the sum of the footprints before, is the
\* sum after, the new footprint added.
C14_SizesAreDistinctEntries ==
    [][ \A u \in Urls, s1 \in TextSizes, s2 \in TextSizes :
          /\ s1 # s2
          /\ <<u, s1>> \in DOMAIN text_id_cache
          /\ ~IsPlaceholder(<<u, s1>>)
          /\ Calls("load_sized", <<u, s2>>)
          /\ last_call'.outcome = "returned"
          /\ last_call'.err = "None"
          /\ last_call'.loader_calls # {}
          /\ last_call'.evicted = <<>>
          => /\ {<<u, s1>>, <<u, s2>>} \subseteq DOMAIN text_id_cache'
             /\ text_id_cache'[<<u, s1>>] = text_id_cache[<<u, s1>>]
             /\ text_id_cache'[<<u, s2>>].text_id = last_call'.ret
             /\ last_call'.ret # text_id_cache[<<u, s1>>].text_id
             /\ last_call'.ret # placeholder_text_id
             /\ \A c \in last_call'.parser_calls : c.size = s2
             /\ text_id_cache_size = SumFootprints(DOMAIN text_id_cache) =>
                   text_id_cache_size' =
                       text_id_cache_size
                         + TextureManager_footprint(internal_text_man', last_call'.ret)
      ]_vars

\* C14, the case reached: one url is in the cache at two sizes with two
\* textures, the second just decoded at its own size with nothing evicted.
C14_Witness ==
    /\ InsertedAndReturned
    /\ last_call.err = "None"
    /\ last_call.evicted = <<>>
    /\ \E s1 \in TextSizes :
          /\ s1 # last_call.size
          /\ <<last_call.url, s1>> \in DOMAIN text_id_cache
          /\ <<last_call.url, last_call.size>> \in DOMAIN text_id_cache
          /\ ~IsPlaceholder(<<last_call.url, s1>>)
          /\ text_id_cache[<<last_call.url, s1>>].text_id # last_call.ret
          /\ text_id_cache_size = SumFootprints(DOMAIN text_id_cache)
          /\ text_id_cache_size > BytesPerPixel

\* C15: DynamicTextureManager::unload(url) leaves no entry of url in
\* tex_id_cache at any size and no bytes of url in bytes_cache, and the
\* textures of the entries it removes are freed.
C15_UnloadDropsEverySize ==
    [][ dtm_last_call'.op = "unload" =>
          /\ dtm_last_call'.url \notin DOMAIN bytes_cache'
          /\ \A k \in DOMAIN tex_id_cache' : k[1] # dtm_last_call'.url
          /\ \A k \in DOMAIN tex_id_cache :
                k[1] = dtm_last_call'.url /\ tex_id_cache[k] # placeholder_tex_id =>
                    ~Allocated(tex_manager', tex_id_cache[k]) ]_vars

\* C16: unload_sized of a key that holds a texture of its own removes that
\* entry alone, frees that texture alone, and takes its footprint off
\* text_id_cache_size; every other entry stays as it was.
C16_UnloadSizedFrame ==
    [][ \A k \in Keys :
          /\ k \in DOMAIN text_id_cache
          /\ ~IsPlaceholder(k)
          /\ Allocated(internal_text_man, text_id_cache[k].text_id)
          /\ Calls("unload_sized", k)
          => /\ last_call'.outcome = "returned"
             /\ DOMAIN text_id_cache' = DOMAIN text_id_cache \ {k}
             /\ \A j \in DOMAIN text_id_cache' : text_id_cache'[j] = text_id_cache[j]
             /\ internal_text_man' =
                   TextureManager_free(internal_text_man, text_id_cache[k].text_id)
             /\ text_id_cache_size' =
                   text_id_cache_size
                     - TextureManager_footprint(internal_text_man,
                                                text_id_cache[k].text_id) ]_vars

\* C16 of DynTextMan, for a text_id_cache_size that is the sum of the
\* footprints when unload_sized is called.
DynTextMan_UnloadSizedFrameWhenAccurate ==
    [][ \A k \in Keys :
          /\ k \in DOMAIN text_id_cache
          /\ ~IsPlaceholder(k)
          /\ Allocated(internal_text_man, text_id_cache[k].text_id)
          /\ text_id_cache_size = SumFootprints(DOMAIN text_id_cache)
          /\ Calls("unload_sized", k)
          => /\ last_call'.outcome = "returned"
             /\ DOMAIN text_id_cache' = DOMAIN text_id_cache \ {k}
             /\ \A j \in DOMAIN text_id_cache' : text_id_cache'[j] = text_id_cache[j]
             /\ internal_text_man' =
                   TextureManager_free(internal_text_man, text_id_cache[k].text_id)
             /\ text_id_cache_size' =
                   text_id_cache_size
                     - TextureManager_footprint(internal_text_man,
                                                text_id_cache[k].text_id) ]_vars

\* C16 of DynamicTextureManager: unload_sized of a key that holds a texture of
\* its own removes that entry alone and frees its texture.
DynamicTextureManager_UnloadSizedFrame ==
    [][ \A k \in DtmKeys :
          /\ k \in DOMAIN tex_id_cache
          /\ tex_id_cache[k] # placeholder_tex_id
          /\ dtm_last_call'.op = "unload_sized"
          /\ <<dtm_last_call'.url, dtm_last_call'.size>> = k
          => /\ DOMAIN tex_id_cache' = DOMAIN tex_id_cache \ {k}
             /\ \A j \in DOMAIN tex_id_cache' : tex_id_cache'[j] = tex_id_cache[j]
             /\ bytes_cache' = bytes_cache
             /\ ~Allocated(tex_manager', tex_id_cache[k]) ]_vars

\* C17: register_bytes_parser(ext, parser) changes bytes_parsers alone, where
\* ext now has parser; text_id_cache, text_id_cache_size and the textures are
\* as before.  The load_sized after it returns the cached texture of a cached
\* key without a parser call, and decodes a missing key of that extension
\* with the parser just registered.
C17_RegisterParserFrame ==
    [][ /\ last_call'.op = "register_bytes_parser" =>
              /\ text_id_cache' = text_id_cache
              /\ text_id_cache_size' = text_id_cache_size
              /\ internal_text_man' = internal_text_man
              /\ DOMAIN bytes_parsers' = DOMAIN bytes_parsers \cup {last_call'.url}
              /\ bytes_parsers'[last_call'.url] = last_call'.parser
              /\ \A e \in DOMAIN bytes_parsers \ {last_call'.url} :
                    bytes_parsers'[e] = bytes_parsers[e]
        /\ last_call.op = "register_bytes_parser" /\ last_call'.op = "load_sized" =>
              /\ <<last_call'.url, last_call'.size>> \in DOMAIN text_id_cache =>
                    /\ last_call'.outcome = "returned"
                    /\ last_call'.ret =
                          text_id_cache[<<last_call'.url, last_call'.size>>].text_id
                    /\ last_call'.parser_calls = {}
              /\ file_ext_of(last_call'.url).ext = last_call.url =>
                    \A c \in last_call'.parser_calls : c.parser = last_call.parser
      ]_vars

\* C17, the case reached: a texture decoded by the png parser is cached, and
\* a key of the same extension was then decoded by the svg parser registered
\* in its place.
C17_Witness ==
    /\ InsertedAndReturned
    /\ last_call.err = "None"
    /\ \E c \in last_call.parser_calls : c.parser = "svg"
    /\ \E k \in DOMAIN text_id_cache :
          /\ k # <<last_call.url, last_call.size>>
          /\ file_ext_of(k[1]) = file_ext_of(last_call.url)
          /\ ~IsPlaceholder(k)
          /\ EntryFootprint(k) = 3 * BytesPerPixel

\* C18: when a load of DynamicTextureManager got Bytes from the loader and
\* returned, the load of the same url at another size right after it does
\* not call the loader: it decodes the bytes kept in bytes_cache.
C18_SecondSizeDecodesFromCache ==
    [][ /\ DtmLoaded
        /\ LoaderAnswered(dtm_last_call, "Bytes")
        /\ dtm_last_call'.op \in {"load", "load_sized"}
        /\ dtm_last_call'.url = dtm_last_call.url
        /\ dtm_last_call'.size # dtm_last_call.size
        => dtm_last_call'.loader_calls = {} ]_vars

\* C19: a load of DynamicTextureManager the loader answers Again returns the
\* placeholder and leaves tex_id_cache as it was; the load of the same key
\* after it asks the loader again and, when the loader now gives Bytes and the
\* parser decodes them, returns a texture of its own, allocated and cached
\* under the key.
C19_PendingThenReady ==
    [][ /\ dtm_last_call'.op \in {"load", "load_sized"}
            /\ LoaderAnswered(dtm_last_call', "Again")
            => /\ dtm_last_call'.outcome = "returned"
               /\ dtm_last_call'.ret = placeholder_tex_id
               /\ tex_id_cache' = tex_id_cache
        /\ /\ DtmLoaded
            /\ LoaderAnswered(dtm_last_call, "Again")
            /\ dtm_last_call'.op = dtm_last_call.op
            /\ dtm_last_call'.url = dtm_last_call.url
            /\ dtm_last_call'.size = dtm_last_call.size
            => /\ dtm_last_call'.loader_calls # {}
               /\ LoaderAnswered(dtm_last_call', "Bytes")
                     /\ dtm_last_call'.outcome = "returned"
                     => /\ dtm_last_call'.ret # placeholder_tex_id
                        /\ Allocated(tex_manager', dtm_last_call'.ret)
                        /\ <<dtm_last_call'.url, dtm_last_call'.size>>
                              \in DOMAIN tex_id_cache'
                        /\ tex_id_cache'[<<dtm_last_call'.url, dtm_last_call'.size>>]
                              = dtm_last_call'.ret ]_vars

\* C19, the case reached: the load before this one, of the same key, ended
\* with the placeholder and nothing cached; this one got Bytes and returned a
\* texture of its own.
C19_Witness ==
    /\ DtmLoaded
    /\ LoaderAnswered(dtm_last_call, "Bytes")
    /\ dtm_last_call.ret # placeholder_tex_id
    /\ \E p \in dtm_last_call.prior : ~p.cached /\ p.ret = placeholder_tex_id

\* C20: load_sized of a url without a file extension returns the placeholder
\* and does not call the loader.
C20_NoExtensionSkipsLoader ==
    last_call.op = "load_sized" /\ ~file_ext_of(last_call.url).ok =>
        /\ last_call.outcome = "returned"
        /\ last_call.ret = placeholder_text_id
        /\ last_call.loader_calls = {}

\* C20 of DynamicTextureManager: a load of a url without a file extension
\* returns the placeholder and does not call the loader.
DynamicTextureManager_NoExtensionSkipsLoader ==
    dtm_last_call.op \in {"load", "load_sized"} /\ ~file_ext_of(dtm_last_call.url).ok =>
        /\ dtm_last_call.outcome = "returned"
        /\ dtm_last_call.ret = placeholder_tex_id
        /\ dtm_last_call.loader_calls = {}

\* C9: once a failure cached the placeholder for a key, no load_sized for that
\* key calls the loader or the parser until the key is explicitly unloaded.
C9_FailedKeyNeverReloaded ==
    [][ \A k \in failed_cached :
          Calls("load_sized", k) => NoCollaboratorCalled(last_call') ]_vars

\* C10: for a key whose failure cached the placeholder, unload_sized returns,
\* the load_sized right after it asks the loader again and, when the loader
\* gives bytes that decode, returns a texture of its own that is allocated.
C10_UnloadForcesRetry ==
    [][ \A k \in Keys :
          /\ k \in failed_cached /\ Calls("unload_sized", k) =>
                last_call'.outcome = "returned"
          /\ Called("unload_sized", k) /\ Calls("load_sized", k) =>
                /\ last_call'.loader_calls # {}
                /\ LoaderAnswered(last_call', "Bytes") /\ last_call'.err = "None" =>
                      /\ last_call'.outcome = "returned"
                      /\ last_call'.ret # placeholder_text_id
                      /\ Allocated(internal_text_man', last_call'.ret) ]_vars

\* C23: DynamicTextureManager::unload(url) takes the bytes of url out of
\* bytes_cache and the entry (url, (0, 0)) out of tex_id_cache, and nothing
\* else: every entry of url at an explicit size, and every entry and all
\* bytes of another url, stay as they were.  unload_sized(url, size) then
\* takes out the entry (url, size) alone.
C23_UnloadKeepsSizedEntries ==
    [][ /\ dtm_last_call'.op = "unload" =>
              /\ DOMAIN bytes_cache' = DOMAIN bytes_cache \ {dtm_last_call'.url}
              /\ \A u \in DOMAIN bytes_cache' : bytes_cache'[u] = bytes_cache[u]
              /\ DOMAIN tex_id_cache' =
                    DOMAIN tex_id_cache \ {<<dtm_last_call'.url, <<0, 0>>>>}
              /\ \A k \in DOMAIN tex_id_cache' : tex_id_cache'[k] = tex_id_cache[k]
        /\ dtm_last_call'.op = "unload_sized" =>
              /\ DOMAIN tex_id_cache' =
                    DOMAIN tex_id_cache \ {<<dtm_last_call'.url, dtm_last_call'.size>>}
              /\ \A k \in DOMAIN tex_id_cache' : tex_id_cache'[k] = tex_id_cache[k]
      ]_vars

\* C23, the case reached: unload(url) has run, the unsized entry of url is
\* gone, and url is still cached at both explicit sizes with a texture of its
\* own each.
C23_Witness ==
    /\ dtm_last_call.op = "unload"
    /\ <<dtm_last_call.url, <<0, 0>>>> \notin DOMAIN tex_id_cache
    /\ \A size \in TextSizes :
          /\ <<dtm_last_call.url, size>> \in DOMAIN tex_id_cache
          /\ tex_id_cache[<<dtm_last_call.url, size>>] # placeholder_tex_id
    /\ \E id \in DOMAIN tex_manager.metas :
          /\ id # placeholder_tex_id
          /\ \A k \in DOMAIN tex_id_cache : tex_id_cache[k] # id

\* C24: every texture the cache allocated and has not freed is the
\* placeholder or the texture of exactly one entry of the index.  Stated of
\* DynamicTextureManager.
C24_NoHandleLeak ==
    DtmRunning =>
        \A id \in DOMAIN tex_manager.metas \ {placeholder_tex_id} :
            Cardinality({ k \in DOMAIN tex_id_cache : tex_id_cache[k] = id }) = 1

\* C24 of DynTextMan.
DynTextMan_NoHandleLeak ==
    Running =>
        \A id \in DOMAIN internal_text_man.metas \ {placeholder_text_id} :
            Cardinality({ k \in DOMAIN text_id_cache :
                            text_id_cache[k].text_id = id }) = 1

\* C25: under TargetCacheSize(N) the state "text_id_cache_size > N with an
\* empty index" is never reached, and no load_sized is left in the loop of
\* automatic_unload without an entry to remove.
C25_EvictionTerminates ==
    /\ last_call.outcome # "hung"
    /\ unload_strategy.kind = "TargetCacheSize" /\ Running =>
          ~(text_id_cache_size > unload_strategy.target /\ DOMAIN text_id_cache = {})

\* The largest footprint a texture decoded from LoadedBytes at one of
\* TextSizes has.
MaxFootprint ==
    LET pixels == { b.pixels : b \in LoadedBytes } \cup { s[1] * s[2] : s \in TextSizes }
    IN  BytesPerPixel * (CHOOSE n \in pixels : \A m \in pixels : m <= n)

\* C26: text_id_cache_size never underflows.  No unload_sized panics on the
\* subtraction or leaves the counter larger than it was, placeholder keys
\* included; no load_sized panics in an eviction or leaves the counter larger
\* than it was plus the footprint of the texture it added.
C26_CounterNeverUnderflows ==
    [][ /\ last_call'.op = "unload_sized" =>
              /\ text_id_cache_size' <= text_id_cache_size
              /\ last_call'.outcome = "panicked" =>
                    last_call'.err = "CachedTextureNotFound"
        /\ last_call'.op = "load_sized" /\ last_call'.evicted # <<>> =>
              /\ last_call'.outcome # "panicked"
              /\ text_id_cache_size' <= text_id_cache_size + MaxFootprint
      ]_vars

\* C27: an unload_sized that fails with CachedTextureNotFound leaves the
\* entry in the index and text_id_cache_size as it was.
C27_FailedUnloadChangesNothing ==
    [][ last_call'.op = "unload_sized" /\ last_call'.err = "CachedTextureNotFound" =>
          /\ text_id_cache' = text_id_cache
          /\ text_id_cache_size' = text_id_cache_size
          /\ internal_text_man' = internal_text_man ]_vars

\* A guard of internal_text_man is held when event i of the call starts.
GuardHeld(events, i) ==
    Cardinality({ j \in 1..(i - 1) : events[j] \in {"read", "write"} })
        > Cardinality({ j \in 1..(i - 1) : events[j] = "release" })

\* C21: no guard of internal_text_man is held while the loader or a parser
\* runs: in every call, each guard taken for alloc, free or footprint is
\* dropped before a loader or parser call starts and taken only after it
\* returned, and no guard is left held when the call ends.  The calls of the
\* TextureManager are made under a guard.
C21_NoLockAcrossCollaborators ==
    /\ \A i \in DOMAIN lock_events :
          /\ lock_events[i] \in {"loader", "parser"} => ~GuardHeld(lock_events, i)
          /\ lock_events[i] \in {"alloc", "free", "footprint"} =>
                GuardHeld(lock_events, i)
          /\ lock_events[i] \in {"read", "write"} => ~GuardHeld(lock_events, i)
    /\ ~GuardHeld(lock_events, Len(lock_events) + 1)

\* C21, the case reached: a load_sized called the loader and the parser,
\* allocated its texture, and freed another one in an eviction.
C21_Witness ==
    /\ Returned("load_sized")
    /\ \A e \in {"loader", "parser", "alloc", "footprint", "free"} :
          \E i \in DOMAIN lock_events : lock_events[i] = e
    /\ \E i, j \in DOMAIN lock_events :
          i < j /\ lock_events[i] = "parser" /\ lock_events[j] = "write"

\* C22: when the cache goes on calling load(url) and the fetches end with a
\* response, a load(url) that answered Again is followed by a load(url) that
\* answers Bytes or Err (unless a fetch failed and poisoned the Mutex); and
\* a load that answers Bytes or Err takes the response out of responses, so
\* that no later load hands it out again.
C22_AgainThenResponseOnce ==
    /\ \A url \in HttpUrls :
          (http_results[url] = "Again")
              ~> (http_results[url] \in {"Bytes", "Err"} \/ responses_poisoned)
    /\ [][ \A url \in HttpUrls :
             /\ \/ http_last_call' # http_last_call
                \/ fetching' = fetching /\ responses' # responses
             /\ http_last_call'.url = url
             /\ http_last_call'.result \in {"Bytes", "Err"}
             => /\ url \in DOMAIN responses
                /\ http_last_call'.result =
                      (IF responses[url].ok THEN "Bytes" ELSE "Err")
                /\ url \notin DOMAIN responses' ]_vars

\* C22, the case reached: load(url) answered Again, its fetch delivered, and
\* the next load(url) handed the bytes out and left no response of url
\* behind.
C22_Witness ==
    /\ http_last_call.result = "Bytes"
    /\ http_last_call.prior = "Again"
    /\ http_last_call.url \notin DOMAIN responses
    /\ fetching[http_last_call.url] = 0
    /\ ~responses_poisoned

\* C28: at most one fetch of a url is under way at a time.
C28_OneFetchPerUrl ==
    \A url \in HttpUrls : fetching[url] <= 1

\* C28, second half: once load(url) has handed out a response and no load(url)
\* has been made since, responses holds nothing of url.
HttpBytesLoader_NoResponseAfterConsumed ==
    \A url \in HttpUrls :
        http_results[url] \in {"Bytes", "Err"} => url \notin DOMAIN responses

\* C29: every call of the loader made for load_sized(url, size) is given url
\* itself.  Stated of DynTextMan of text_man.rs.
C29_LoaderGetsUrl ==
    text_man_last_call.op = "load_sized" =>
        \A c \in text_man_last_call.loader_calls : c.url = text_man_last_call.url

\* C29 of DynTextMan of text_man/dyn_text_man.rs.
DynTextMan_LoaderGetsUrl ==
    last_call.op = "load_sized" =>
        \A c \in last_call.loader_calls : c.url = last_call.url

\* C29 of DynamicTextureManager.
DynamicTextureManager_LoaderGetsUrl ==
    dtm_last_call.op \in {"load", "load_sized"} =>
        \A c \in dtm_last_call.loader_calls : c.url = dtm_last_call.url

====
